---- MODULE Spec2Model ----
(***************************************************************************)
(* Reddit comment scraper: the POST /api/scrape handler, the OAuth token   *)
(* cache it shares between requests, and the comment flattener.            *)
(*                                                                         *)
(* Strings are sequences of atoms (<<"abc">> is "abc", <<>> is ""), a JS   *)
(* object is a record whose DOMAIN is the set of fields it has, and an     *)
(* await is the end of a step: other requests may run in between.          *)
(***************************************************************************)
EXTENDS Integers, Sequences, FiniteSets, TLC

VARIABLES variant, configured, cachedToken, tokenExpiry, now, req,
          children, comments, fpc,
          input, jsonUrls, upc,
          statsFile, visit

vars == <<variant, configured, cachedToken, tokenExpiry, now, req,
          children, comments, fpc,
          input, jsonUrls, upc,
          statsFile, visit>>

tokenVars == <<cachedToken, tokenExpiry>>
flatVars == <<children, comments, fpc>>
urlVars == <<input, jsonUrls, upc>>
statVars == <<statsFile, visit>>
\* What the scrape handler never touches.
sideVars == <<flatVars, urlVars, statVars>>
\* What the flattener, the resolver and the visit counter never touch.
handlerVars == <<variant, configured, tokenVars, now, req>>

(***************************************************************************)
(* Bounds of the model.                                                    *)
(***************************************************************************)
NumReqs == 2
MaxTicks == 1
TickMs == 60000
MaxNodes == 4
MaxParts == 4
MaxVisits == 3

(***************************************************************************)
(* Program constants.                                                      *)
(***************************************************************************)
BufferMs == 60000
MsPerSec == 1000

Reqs == 1..NumReqs

\* The four source variants of the server.
Variants == {"oauth", "www", "rewrite", "basic"}

\* let cachedToken = null
NullToken == "null"
Tokens == {"tokA", "tokB"}
\* expires_in values (seconds) the authorization server may return.
Lifetimes == {60, 180}

\* JS values of req.body.url and of toRedditJsonUrl's result.
JsNull == [type |-> "null"]
JsUndefined == [type |-> "undefined"]
JsNumber == [type |-> "number"]
JsStr(s) == [type |-> "string", atoms |-> s]

\* !v
Falsy(v) == v.type \in {"null", "undefined"} \/ (v.type = "string" /\ v.atoms = <<>>)

Has(o, f) == f \in DOMAIN o

(***************************************************************************)
(* URL resolver.  A URL is a sequence of atoms: "/" and "?" are atoms of   *)
(* their own, so are ".json" and the words between separators.             *)
(***************************************************************************)
\* The /i flag of the patterns: the letters of "r" and "comments" in any case.
Lower(a) ==
  CASE a = "R" -> "r"
    [] a \in {"COMMENTS", "Comments"} -> "comments"
    [] OTHER -> a

\* Atoms made of [a-z0-9] characters only.
AlnumAtoms == {"abc", "xyz", "js", "r", "R", "comments", "COMMENTS", "Comments", "x", "1"}

Min(S) == CHOOSE x \in S : \A y \in S : x <= y

\* [^/]+ starting at i: the last index of the run of atoms other than "/"
\* (i - 1 when the run is empty).
RunEnd(s, i) ==
  LET stops == {k \in i..Len(s) : s[k] = "/"}
  IN IF stops = {} THEN Len(s) ELSE Min(stops) - 1

\* [a-z0-9]+ starting at i.
AlnumEnd(s, i) ==
  LET stops == {k \in i..Len(s) : s[k] \notin AlnumAtoms}
  IN IF stops = {} THEN Len(s) ELSE Min(stops) - 1

\* /\/r\/([^/]+)\/comments\/([^/]+)/i matches with its first "/" at i.
StrictAt(s, i) ==
  /\ i + 3 <= Len(s)
  /\ s[i] = "/" /\ Lower(s[i + 1]) = "r" /\ s[i + 2] = "/"
  /\ LET j == RunEnd(s, i + 3)
     IN /\ j >= i + 3
        /\ j + 4 <= Len(s)
        /\ s[j + 1] = "/" /\ Lower(s[j + 2]) = "comments" /\ s[j + 3] = "/"
        /\ RunEnd(s, j + 4) >= j + 4

\* /\/comments\/([^/]+)/i matches with its first "/" at i.
LooseAt(s, i) ==
  /\ i + 3 <= Len(s)
  /\ s[i] = "/" /\ Lower(s[i + 1]) = "comments" /\ s[i + 2] = "/"
  /\ RunEnd(s, i + 3) >= i + 3

\* /\/comments\/([a-z0-9]+)/i matches with its first "/" at i.
AlnumAt(s, i) ==
  /\ i + 3 <= Len(s)
  /\ s[i] = "/" /\ Lower(s[i + 1]) = "comments" /\ s[i + 2] = "/"
  /\ AlnumEnd(s, i + 3) >= i + 3

OauthHost == <<"https:", "/", "/", "oauth.reddit.com">>
WwwHost == <<"https:", "/", "/", "www.reddit.com">>

\* userUrl.split("?")[0]
BeforeQuery(s) ==
  LET qs == {k \in 1..Len(s) : s[k] = "?"}
  IN IF qs = {} THEN s ELSE SubSeq(s, 1, Min(qs) - 1)

\* .replace(/\/+$/, "")
StripSlashes(s) ==
  LET keep == {k \in 0..Len(s) : \A m \in (k + 1)..Len(s) : s[m] = "/"}
  IN SubSeq(s, 1, Min(keep))

\* Mutant: the suffix is appended whatever the link ends in.
WithJsonAlways(s) == Append(s, ".json")

\* if (!cleaned.endsWith(".json")) cleaned += ".json"
WithJson(s) ==
  IF s # <<>> /\ s[Len(s)] = ".json" THEN s ELSE Append(s, ".json")

\* part_000, second server: split, strip, suffix.
toRedditJsonUrlBasic(userUrl) == JsStr(WithJson(StripSlashes(BeforeQuery(userUrl))))

\* Mutant: the basic normalisation of the other servers instead of null.
toRedditJsonUrlOauthFallback(userUrl) ==
  LET strict == {i \in 1..Len(userUrl) : StrictAt(userUrl, i)}
      loose == {i \in 1..Len(userUrl) : LooseAt(userUrl, i)}
  IN IF strict # {}
       THEN LET i == Min(strict)
                j == RunEnd(userUrl, i + 3)
                k == RunEnd(userUrl, j + 4)
            IN JsStr(OauthHost \o <<"/", "r", "/">> \o SubSeq(userUrl, i + 3, j)
                       \o <<"/", "comments", "/">> \o SubSeq(userUrl, j + 4, k))
       ELSE IF loose # {}
         THEN LET i == Min(loose)
              IN JsStr(OauthHost \o <<"/", "comments", "/">>
                         \o SubSeq(userUrl, i + 3, RunEnd(userUrl, i + 3)))
         ELSE toRedditJsonUrlBasic(userUrl)

\* index.js: strict pattern, then loose pattern, else null.
toRedditJsonUrlOauth(userUrl) ==
  LET strict == {i \in 1..Len(userUrl) : StrictAt(userUrl, i)}
      loose == {i \in 1..Len(userUrl) : LooseAt(userUrl, i)}
  IN IF strict # {}
       THEN LET i == Min(strict)
                j == RunEnd(userUrl, i + 3)
                k == RunEnd(userUrl, j + 4)
            IN JsStr(OauthHost \o <<"/", "r", "/">> \o SubSeq(userUrl, i + 3, j)
                       \o <<"/", "comments", "/">> \o SubSeq(userUrl, j + 4, k))
       ELSE IF loose # {}
         THEN LET i == Min(loose)
              IN JsStr(OauthHost \o <<"/", "comments", "/">>
                         \o SubSeq(userUrl, i + 3, RunEnd(userUrl, i + 3)))
         ELSE JsNull

AltHosts == {"old.reddit.com", "mobile.reddit.com", "pay.reddit.com"}

\* .replace(/(old|mobile|pay)\.reddit\.com/, "www.reddit.com"): first match only.
RewriteHost(s) ==
  LET hits == {k \in 1..Len(s) : s[k] \in AltHosts}
  IN IF hits = {} THEN s ELSE [s EXCEPT ![Min(hits)] = "www.reddit.com"]

\* part_001: the basic normalisation, then the host rewrite.
toRedditJsonUrlRewrite(userUrl) ==
  JsStr(RewriteHost(WithJson(StripSlashes(BeforeQuery(userUrl)))))

\* part_000, first server: /comments/<alnum id>, else the basic normalisation.
toRedditJsonUrlWww(userUrl) ==
  LET hits == {i \in 1..Len(userUrl) : AlnumAt(userUrl, i)}
  IN IF hits # {}
       THEN LET i == Min(hits)
            IN JsStr(WwwHost \o <<"/", "comments", "/">>
                       \o SubSeq(userUrl, i + 3, AlnumEnd(userUrl, i + 3))
                       \o <<".json">>)
       ELSE toRedditJsonUrlBasic(userUrl)

toRedditJsonUrl(v, userUrl) ==
  CASE v = "oauth" -> toRedditJsonUrlOauth(userUrl)
    [] v = "www" -> toRedditJsonUrlWww(userUrl)
    [] v = "rewrite" -> toRedditJsonUrlRewrite(userUrl)
    [] OTHER -> toRedditJsonUrlBasic(userUrl)

(***************************************************************************)
(* Comment flattener.  A node is a record with the fields it has among     *)
(* kind and data; data has the fields it has among author, body, score,    *)
(* created_utc and replies.  A nullable number is <<n>> or <<>> (null).    *)
(* The result is [threw, comments]: threw when the walk raises TypeError.  *)
(***************************************************************************)
Null == <<>>
Deleted == <<"[deleted]">>

Done(cs) == [threw |-> FALSE, comments |-> cs]
Threw == [threw |-> TRUE, comments |-> <<>>]

\* Mutant: a missing created_utc becomes 0 instead of null.
CommentRecordZeroTime(d) ==
  [author |-> IF Has(d, "author") THEN d.author ELSE Deleted,
   body |-> d.body,
   score |-> IF Has(d, "score") THEN d.score ELSE 0,
   created_utc |-> IF Has(d, "created_utc") THEN d.created_utc ELSE <<0>>]

\* comments.push({author: d.author ?? "[deleted]", body: d.body,
\*                score: d.score ?? 0, created_utc: d.created_utc ?? null})
CommentRecord(d) ==
  [author |-> IF Has(d, "author") THEN d.author ELSE Deleted,
   body |-> d.body,
   score |-> IF Has(d, "score") THEN d.score ELSE 0,
   created_utc |-> IF Has(d, "created_utc") THEN d.created_utc ELSE Null]

\* if (d.body)
HasBody(d) == Has(d, "body") /\ d.body # <<>>

\* if (d.replies?.data?.children)
HasReplies(d) ==
  /\ Has(d, "replies")
  /\ Has(d.replies, "data")
  /\ Has(d.replies.data, "children")

\* Mutant: the replies are pushed before the comment itself.
PushedRepliesFirst(own, nested) == nested \o own

\* The order of the two pushes of one loop iteration.
Pushed(own, nested) == own \o nested

RECURSIVE extractComments(_)

\* Mutant: the replies are traversed only under a comment that has a body.
ChildCommentsBodyOnly(child) ==
  IF Has(child, "kind") /\ child.kind = "t1"
    THEN IF ~Has(child, "data")
           THEN Threw
           ELSE LET d == child.data
                    nested == IF HasReplies(d)
                                THEN extractComments(d.replies.data.children)
                                ELSE Done(<<>>)
                IN IF ~HasBody(d)
                     THEN Done(<<>>)
                     ELSE IF nested.threw
                            THEN Threw
                            ELSE Done(Pushed(<<CommentRecord(d)>>, nested.comments))
    ELSE Done(<<>>)

\* One iteration of the for loop: the records child contributes.
ChildComments(child) ==
  IF Has(child, "kind") /\ child.kind = "t1"
    THEN IF ~Has(child, "data")
           THEN Threw
           ELSE LET d == child.data
                    own == IF HasBody(d) THEN <<CommentRecord(d)>> ELSE <<>>
                    nested == IF HasReplies(d)
                                THEN extractComments(d.replies.data.children)
                                ELSE Done(<<>>)
                IN IF nested.threw THEN Threw ELSE Done(Pushed(own, nested.comments))
    ELSE Done(<<>>)

extractComments(cs) ==
  IF cs = <<>>
    THEN Done(<<>>)
    ELSE LET first == ChildComments(Head(cs))
             rest == extractComments(Tail(cs))
         IN IF first.threw \/ rest.threw
              THEN Threw
              ELSE Done(first.comments \o rest.comments)

(***************************************************************************)
(* Upstream documents the thread endpoint may answer with.                 *)
(***************************************************************************)
EmptyObj == <<>>

Listing(cs) == [data |-> [children |-> cs]]

Comment(a, b) ==
  [kind |-> "t1",
   data |-> [author |-> <<a>>, body |-> <<b>>, score |-> 5, created_utc |-> <<100>>,
             replies |-> EmptyObj]]

PostListing == Listing(<<[data |-> [title |-> <<"T">>, selftext |-> <<"S">>]]>>)

\* The well-formed two-listing document.
DocThread == [type |-> "array", items |-> <<PostListing, Listing(<<Comment("a", "b")>>)>>]
\* [] : no listing at all.
DocEmpty == [type |-> "array", items |-> <<>>]
\* JSON null.
DocNull == [type |-> "null"]
\* A comment node of kind t1 without data.
DocBroken == [type |-> "array", items |-> <<PostListing, Listing(<<[kind |-> "t1"]>>)>>]

\* Two listings, the post without title and selftext.
DocBare ==
  [type |-> "array",
   items |-> <<Listing(<<[data |-> EmptyObj]>>), Listing(<<Comment("a", "b")>>)>>]

Docs == {DocThread, DocEmpty, DocNull, DocBroken, DocBare}

\* json[0]?.data?.children?.[0]?.data ?? {}
PostData(json) ==
  IF /\ Len(json.items) >= 1
     /\ Has(json.items[1], "data")
     /\ Has(json.items[1].data, "children")
     /\ Len(json.items[1].data.children) >= 1
     /\ Has(json.items[1].data.children[1], "data")
    THEN json.items[1].data.children[1].data
    ELSE EmptyObj

\* Mutant: the comments are read from the first listing.
CommentChildrenFirst(json) ==
  IF /\ Len(json.items) >= 1
     /\ Has(json.items[1], "data")
     /\ Has(json.items[1].data, "children")
    THEN json.items[1].data.children
    ELSE <<>>

\* json[1]?.data?.children ?? []
CommentChildren(json) ==
  IF /\ Len(json.items) >= 2
     /\ Has(json.items[2], "data")
     /\ Has(json.items[2].data, "children")
    THEN json.items[2].data.children
    ELSE <<>>

(***************************************************************************)
(* POST /api/scrape and getRedditToken.                                    *)
(***************************************************************************)
\* Request bodies: no url, "", a number, a thread link and a link to no thread.
UrlStrict == <<"https:", "/", "/", "www.reddit.com", "/", "r", "/", "js", "/", "comments", "/", "abc", "/">>
UrlNoThread == <<"https:", "/", "/", "old.reddit.com", "/", "r", "/", "js", "/">>

Urls == {JsUndefined, JsStr(<<>>), JsNumber, JsStr(UrlStrict), JsStr(UrlNoThread)}

\* Statuses the thread endpoint may answer with.
Statuses == {200, 403}
\* response.ok
Ok(s) == 200 <= s /\ s <= 299

\* Statuses of the token endpoint.
TokenStatuses == {200, 401}

NewReq ==
  [pc |-> "idle", url |-> JsUndefined, jsonUrl |-> JsUndefined, token |-> NullToken,
   tstatus |-> 0, status |-> 0, exchanges |-> 0, fetches |-> <<>>, responses |-> <<>>,
   json |-> JsUndefined]

\* {error: <message>}; shown is the status the message quotes (0: none).
ErrorBody(msg, shown) == [error |-> msg, shown |-> shown]

\* res.status(status).json(body); the handler returns.
Send(q, status, body) ==
  [q EXCEPT !.pc = "done",
            !.responses = Append(@, [status |-> status, body |-> body])]

\* catch (err) { res.status(500).json({error: err.message || ...}) }
Caught(q, msg) == Send(q, 500, ErrorBody(msg, 0))

\* await fetch(jsonUrl, {headers}): the GET is issued.
IssueFetch(q) ==
  [q EXCEPT !.pc = "fetch",
            !.fetches = Append(@, [url |-> q.jsonUrl.atoms, auth |-> q.token])]

\* Mutant: the comparison with the expiry is reversed.
TokenFreshReversed == cachedToken # NullToken /\ now > tokenExpiry - BufferMs

\* Mutant: any cached token is used, whatever its expiry.
TokenFreshAlways == cachedToken # NullToken

\* cachedToken && Date.now() < tokenExpiry - 60000
TokenFresh == cachedToken # NullToken /\ now < tokenExpiry - BufferMs

\* getRedditToken up to its first await.
TokenCall(q) ==
  IF ~configured
    THEN [q EXCEPT !.pc = "token", !.token = NullToken]
    ELSE IF TokenFresh
      THEN [q EXCEPT !.pc = "token", !.token = cachedToken]
      ELSE [q EXCEPT !.pc = "exchange", !.exchanges = @ + 1]

\* Mutant: the "URL is required" answer does not return from the handler.
ArriveNoReturn(q) ==
  IF Falsy(q.url)
    THEN Caught(Send(q, 400, ErrorBody("URL is required", 0)), "TypeError")
    ELSE IF q.url.type # "string"
      THEN Caught(q, "TypeError")
      ELSE LET q1 == [q EXCEPT !.jsonUrl = toRedditJsonUrl(variant, q.url.atoms)]
           IN IF variant = "oauth"
                THEN IF Falsy(q1.jsonUrl)
                       THEN Send(q1, 400, ErrorBody("Invalid Reddit URL format", 0))
                       ELSE TokenCall(q1)
                ELSE IssueFetch(q1)

\* The handler from the request's arrival to its first await.
Arrive(q) ==
  IF Falsy(q.url)
    THEN Send(q, 400, ErrorBody("URL is required", 0))
    ELSE IF q.url.type # "string"
      THEN Caught(q, "TypeError")
      ELSE LET q1 == [q EXCEPT !.jsonUrl = toRedditJsonUrl(variant, q.url.atoms)]
           IN IF variant = "oauth"
                THEN IF Falsy(q1.jsonUrl)
                       THEN Send(q1, 400, ErrorBody("Invalid Reddit URL format", 0))
                       ELSE TokenCall(q1)
                ELSE IssueFetch(q1)

\* const { title, body, comments } of a parsed document.
Build(q, json) ==
  IF json.type = "null"
    THEN Caught(q, "TypeError")
    ELSE LET postData == PostData(json)
             ex == extractComments(CommentChildren(json))
         IN IF ex.threw
              THEN Caught(q, "TypeError")
              ELSE Send(q, 200,
                        [title |-> IF Has(postData, "title") THEN postData.title ELSE <<>>,
                         body |-> IF Has(postData, "selftext") THEN postData.selftext ELSE <<>>,
                         comments |-> ex.comments])

\* A request arrives (requests are numbered in their order of arrival).
Scrape(r) ==
  /\ req[r].pc = "idle"
  /\ IF r = 1 THEN TRUE ELSE req[r - 1].pc # "idle"
  /\ \E u \in Urls : req' = [req EXCEPT ![r] = Arrive([@ EXCEPT !.url = u])]
  /\ UNCHANGED <<variant, configured, tokenVars, now, sideVars>>

\* The token endpoint answers with some status, or the POST fails.
ExchangeResponse(r) ==
  /\ req[r].pc = "exchange"
  /\ \/ req' = [req EXCEPT ![r] = [@ EXCEPT !.pc = "token", !.token = NullToken]]
     \/ \E s \in TokenStatuses :
          req' = [req EXCEPT ![r] = [@ EXCEPT !.pc = "exchangeJson", !.tstatus = s]]
  /\ UNCHANGED <<variant, configured, tokenVars, now, sideVars>>

\* Mutant: a failed acquisition clears the cache.
TokenFailedClears(r) ==
  /\ req' = [req EXCEPT ![r] = [@ EXCEPT !.pc = "token", !.token = NullToken]]
  /\ cachedToken' = NullToken
  /\ tokenExpiry' = 0

\* return null after a failed acquisition.
TokenFailed(r) ==
  /\ req' = [req EXCEPT ![r] = [@ EXCEPT !.pc = "token", !.token = NullToken]]
  /\ UNCHANGED tokenVars

\* Mutant: the token is stored and the expiry is left as it was.
TokenAcquiredTokenOnly(r, t, l) ==
  /\ cachedToken' = t
  /\ UNCHANGED tokenExpiry
  /\ req' = [req EXCEPT ![r] = [@ EXCEPT !.pc = "token", !.token = t]]

\* Mutant: expires_in is taken for milliseconds.
TokenAcquiredUnscaled(r, t, l) ==
  /\ cachedToken' = t
  /\ tokenExpiry' = now + l
  /\ req' = [req EXCEPT ![r] = [@ EXCEPT !.pc = "token", !.token = t]]

\* cachedToken = data.access_token; tokenExpiry = Date.now() + data.expires_in * 1000
TokenAcquired(r, t, l) ==
  /\ cachedToken' = t
  /\ tokenExpiry' = now + l * MsPerSec
  /\ req' = [req EXCEPT ![r] = [@ EXCEPT !.pc = "token", !.token = t]]

\* await response.json() of the token endpoint: it rejects, or the document
\* has no access_token, or (a 2xx answer) it grants a token.
ExchangeJson(r) ==
  /\ req[r].pc = "exchangeJson"
  /\ \/ TokenFailed(r)
     \/ /\ Ok(req[r].tstatus)
        /\ \E t \in Tokens, l \in Lifetimes : TokenAcquired(r, t, l)
  /\ UNCHANGED <<variant, configured, now, sideVars>>

\* Mutant: without a token the thread is fetched unauthenticated.
TokenResumeFallback(r) ==
  /\ req[r].pc = "token"
  /\ req' = [req EXCEPT ![r] = IssueFetch(@)]
  /\ UNCHANGED <<variant, configured, tokenVars, now, sideVars>>

\* The handler resumes with getRedditToken's result.
TokenResume(r) ==
  /\ req[r].pc = "token"
  /\ req' = [req EXCEPT ![r] =
               IF @.token = NullToken
                 THEN Send(@, 500, ErrorBody("Could not authenticate with Reddit", 0))
                 ELSE IssueFetch(@)]
  /\ UNCHANGED <<variant, configured, tokenVars, now, sideVars>>

\* if (!response.ok): all servers but the basic one read the body first.
NotOk(q, s) ==
  IF variant = "basic"
    THEN Send(q, s, ErrorBody("Reddit returned status", s))
    ELSE [q EXCEPT !.pc = "text", !.status = s]

\* Mutant: a GET that fails is issued once more.
FetchResponseRetry(r) ==
  /\ req[r].pc = "fetch"
  /\ \/ req' = [req EXCEPT ![r] =
                  IF Len(@.fetches) < 2 THEN IssueFetch(@) ELSE Caught(@, "FetchError")]
     \/ \E s \in Statuses :
          req' = [req EXCEPT ![r] =
                    IF Ok(s) THEN [@ EXCEPT !.pc = "json", !.status = s] ELSE NotOk(@, s)]
  /\ UNCHANGED <<variant, configured, tokenVars, now, sideVars>>

\* The thread endpoint answers with some status, or the GET fails.
FetchResponse(r) ==
  /\ req[r].pc = "fetch"
  /\ \/ req' = [req EXCEPT ![r] = Caught(@, "FetchError")]
     \/ \E s \in Statuses :
          req' = [req EXCEPT ![r] =
                    IF Ok(s) THEN [@ EXCEPT !.pc = "json", !.status = s] ELSE NotOk(@, s)]
  /\ UNCHANGED <<variant, configured, tokenVars, now, sideVars>>

\* Mutant: a non-success answer of the thread endpoint drops the cached token.
ErrorTextInvalidates(r) ==
  /\ req[r].pc = "text"
  /\ \/ req' = [req EXCEPT ![r] =
                  Send(@, @.status, ErrorBody("Reddit returned status", @.status))]
     \/ req' = [req EXCEPT ![r] = Caught(@, "FetchError")]
  /\ cachedToken' = NullToken
  /\ tokenExpiry' = 0
  /\ UNCHANGED <<variant, configured, now, sideVars>>

\* await response.text() of a non-success answer: read, or the read fails.
ErrorText(r) ==
  /\ req[r].pc = "text"
  /\ \/ req' = [req EXCEPT ![r] =
                  Send(@, @.status, ErrorBody("Reddit returned status", @.status))]
     \/ req' = [req EXCEPT ![r] = Caught(@, "FetchError")]
  /\ UNCHANGED <<variant, configured, tokenVars, now, sideVars>>

\* await response.json() of a success answer: a document, or the parse fails.
ThreadJson(r) ==
  /\ req[r].pc = "json"
  /\ \/ \E doc \in Docs : req' = [req EXCEPT ![r] = Build([@ EXCEPT !.json = doc], doc)]
     \/ req' = [req EXCEPT ![r] = Caught(@, "FetchError")]
  /\ UNCHANGED <<variant, configured, tokenVars, now, sideVars>>

\* Date.now() advances.
Tick ==
  /\ now < MaxTicks * TickMs
  /\ now' = now + TickMs
  /\ UNCHANGED <<variant, configured, tokenVars, req, sideVars>>

Init ==
  /\ variant \in Variants
  /\ configured \in BOOLEAN
  /\ variant = "oauth" \/ ~configured
  /\ cachedToken = NullToken
  /\ tokenExpiry = 0
  /\ now = 0
  /\ req = [r \in Reqs |-> NewReq]
  /\ children = <<>>
  /\ comments = <<>>
  /\ fpc = "off"
  /\ input = <<>>
  /\ jsonUrls = <<>>
  /\ upc = "off"
  /\ statsFile = <<>>
  /\ visit = <<>>

Next ==
  \/ \E r \in Reqs : Scrape(r)
  \/ \E r \in Reqs : ExchangeResponse(r)
  \/ \E r \in Reqs : ExchangeJson(r)
  \/ \E r \in Reqs : TokenResume(r)
  \/ \E r \in Reqs : FetchResponse(r)
  \/ \E r \in Reqs : ErrorText(r)
  \/ \E r \in Reqs : ThreadJson(r)
  \/ Tick

Spec == Init /\ [][Next]_vars

(***************************************************************************)
(* The flattener on its own: every comment forest of at most MaxNodes      *)
(* nodes.  A node's body, when it has one, is its path in the forest (the  *)
(* index of each ancestor among its siblings, then its own), so a record   *)
(* of the output names the node it came from.                              *)
(***************************************************************************)
Kinds == {"t1", "more"}

\* A node at path p: kind k, a body iff b, replies kids ("" when none).
MkNode(k, b, p, kids) ==
  LET replies == IF kids = <<>> THEN EmptyObj ELSE Listing(kids)
  IN [kind |-> k,
      data |-> IF b THEN [body |-> p, replies |-> replies] ELSE [replies |-> replies]]

\* The shapes of the forests of n nodes: each node has a kind, a body or
\* none, and its replies.
Shapes[n \in Nat] ==
  IF n = 0
    THEN {<<>>}
    ELSE UNION {
           {<<[kind |-> k, body |-> b, kids |-> kids]>> \o rest :
              k \in Kinds, b \in BOOLEAN, kids \in Shapes[m - 1], rest \in Shapes[n - m]}
           : m \in 1..n}

RECURSIVE Forest(_, _, _)
\* The forest of shape f whose roots are the children i, i + 1, ... of path p.
Forest(f, p, i) ==
  IF f = <<>>
    THEN <<>>
    ELSE <<MkNode(Head(f).kind, Head(f).body, Append(p, i),
                  Forest(Head(f).kids, Append(p, i), 1))>>
           \o Forest(Tail(f), p, i + 1)

\* The forests of at most max nodes.
Forests(max) == {Forest(f, <<>>, 1) : f \in UNION {Shapes[n] : n \in 0..max}}

InitFlat ==
  /\ variant = "oauth"
  /\ configured = FALSE
  /\ cachedToken = NullToken
  /\ tokenExpiry = 0
  /\ now = 0
  /\ req = [r \in Reqs |-> NewReq]
  /\ children \in Forests(MaxNodes)
  /\ comments = Done(<<>>)
  /\ fpc = "ready"
  /\ input = <<>>
  /\ jsonUrls = <<>>
  /\ upc = "off"
  /\ statsFile = <<>>
  /\ visit = <<>>

\* const comments = extractComments(children)
Extract ==
  /\ fpc = "ready"
  /\ comments' = extractComments(children)
  /\ fpc' = "done"
  /\ UNCHANGED <<handlerVars, children, urlVars, statVars>>

NextFlat == Extract

SpecFlat == InitFlat /\ [][NextFlat]_vars

(***************************************************************************)
(* The flattener on incomplete nodes: one node that lacks any subset of    *)
(* kind, data, author, body, score, created_utc and replies.               *)
(***************************************************************************)
\* A reply with every field.
Reply == Comment("bob", "re")

\* The values a field of data takes when it is there.  body may be the
\* empty string; replies is "", an object without data, a listing without
\* children, a listing of one reply, or a listing of a node without data.
FieldValues(f) ==
  CASE f = "author" -> {<<"alice">>}
    [] f = "body" -> {<<>>, <<"hi">>}
    [] f = "score" -> {7}
    [] f = "created_utc" -> {<<100>>}
    [] f = "replies" -> {EmptyObj, [data |-> EmptyObj], Listing(<<Reply>>),
                         Listing(<<[kind |-> "t1"]>>)}

\* A field that is missing, or there with one of its values.
Optional(f) == {EmptyObj} \cup {f :> v : v \in FieldValues(f)}

\* The data objects: any subset of the fields, each with one of its values.
Datas ==
  {a @@ b @@ s @@ c @@ r :
     a \in Optional("author"), b \in Optional("body"), s \in Optional("score"),
     c \in Optional("created_utc"), r \in Optional("replies")}

\* The nodes: with or without kind, with or without data.
FieldNodes ==
  {[kind |-> k, data |-> d] : k \in Kinds, d \in Datas}
    \cup {[data |-> d] : d \in Datas}
    \cup {[kind |-> k] : k \in Kinds}
    \cup {EmptyObj}

InitFields ==
  /\ variant = "oauth"
  /\ configured = FALSE
  /\ cachedToken = NullToken
  /\ tokenExpiry = 0
  /\ now = 0
  /\ req = [r \in Reqs |-> NewReq]
  /\ children \in {<<n>> : n \in FieldNodes}
  /\ comments = Done(<<>>)
  /\ fpc = "ready"
  /\ input = <<>>
  /\ jsonUrls = <<>>
  /\ upc = "off"
  /\ statsFile = <<>>
  /\ visit = <<>>

NextFields == Extract

SpecFields == InitFields /\ [][NextFields]_vars

(***************************************************************************)
(* The resolvers on their own: every link made of a scheme and host and at *)
(* most MaxParts parts, resolved by each of the four servers.              *)
(***************************************************************************)
\* The pieces of a link after its host: a subreddit prefix, a path
\* segment, a lone slash, a query string, a .json suffix.
Parts ==
  {<<"/", "r", "/", "js">>, <<"/", "comments">>, <<"/", "abc">>, <<"/", "xyz">>,
   <<"/">>, <<"?", "x">>, <<".json">>}

SchemeHosts ==
  {<<"https:", "/", "/", "www.reddit.com">>, <<"http:", "/", "/", "old.reddit.com">>}

\* The concatenations of n parts.
PartSeqs[n \in Nat] ==
  IF n = 0 THEN {<<>>} ELSE {p \o rest : p \in Parts, rest \in PartSeqs[n - 1]}

\* The links of at most max parts.
UserUrls(max) ==
  {h \o t : h \in SchemeHosts, t \in UNION {PartSeqs[n] : n \in 0..max}}

InitUrl ==
  /\ variant = "oauth"
  /\ configured = FALSE
  /\ cachedToken = NullToken
  /\ tokenExpiry = 0
  /\ now = 0
  /\ req = [r \in Reqs |-> NewReq]
  /\ children = <<>>
  /\ comments = <<>>
  /\ fpc = "off"
  /\ input \in UserUrls(MaxParts)
  /\ jsonUrls = [v \in Variants |-> JsUndefined]
  /\ upc = "ready"
  /\ statsFile = <<>>
  /\ visit = <<>>

\* const jsonUrl = toRedditJsonUrl(url), in each server.
Resolve ==
  /\ upc = "ready"
  /\ jsonUrls' = [v \in Variants |-> toRedditJsonUrl(v, input)]
  /\ upc' = "done"
  /\ UNCHANGED <<handlerVars, flatVars, input, statVars>>

NextUrl == Resolve

SpecUrl == InitUrl /\ [][NextUrl]_vars

(***************************************************************************)
(* The visit counter: stats.json and the middleware every request passes.  *)
(* The file is missing, unparseable, or {visitorCount: n}; a read and a    *)
(* write of it may fail, which getStats and updateStats catch.             *)
(***************************************************************************)
StatsMissing == [kind |-> "missing"]
StatsCorrupt == [kind |-> "corrupt"]
StatsJson(n) == [kind |-> "json", visitorCount |-> n]

StatsFiles == {StatsMissing, StatsCorrupt} \cup {StatsJson(n) : n \in 0..MaxVisits}

Methods == {"GET", "POST", "HEAD"}
Paths == {"/", "/index.html", "/api/scrape", "/api/health", "/admin/stats"}

\* getStats(): {visitorCount: 0} when the file is missing or cannot be read
\* or parsed, the parsed file otherwise.
getStats(file, readOk) ==
  IF file.kind = "json" /\ readOk
    THEN [visitorCount |-> file.visitorCount]
    ELSE [visitorCount |-> 0]

\* updateStats(stats): the file after the write; a failed write is logged
\* and leaves it as it was.
updateStats(file, stats, writeOk) ==
  IF writeOk THEN StatsJson(stats.visitorCount) ELSE file

\* The middleware: stats.json after a request of this method and path.
Tracked(file, method, path, readOk, writeOk) ==
  IF method = "GET" /\ path = "/"
    THEN LET stats == getStats(file, readOk)
         IN updateStats(file, [stats EXCEPT !.visitorCount = @ + 1], writeOk)
    ELSE file

NoVisit ==
  [method |-> "", path |-> "", readOk |-> TRUE, writeOk |-> TRUE, before |-> StatsMissing]

InitStats ==
  /\ variant = "oauth"
  /\ configured = FALSE
  /\ cachedToken = NullToken
  /\ tokenExpiry = 0
  /\ now = 0
  /\ req = [r \in Reqs |-> NewReq]
  /\ children = <<>>
  /\ comments = <<>>
  /\ fpc = "off"
  /\ input = <<>>
  /\ jsonUrls = <<>>
  /\ upc = "off"
  /\ statsFile \in StatsFiles
  /\ visit = NoVisit

\* One request: the middleware, then its route (the static files, the API
\* routes and /admin/stats, which reads the file and writes nothing).
Visit ==
  \E method \in Methods, path \in Paths, readOk \in BOOLEAN, writeOk \in BOOLEAN :
    /\ statsFile.kind = "json" => statsFile.visitorCount < MaxVisits
    /\ statsFile' = Tracked(statsFile, method, path, readOk, writeOk)
    /\ visit' = [method |-> method, path |-> path, readOk |-> readOk,
                 writeOk |-> writeOk, before |-> statsFile]
    /\ UNCHANGED <<handlerVars, flatVars, urlVars>>

NextStats == Visit

SpecStats == InitStats /\ [][NextStats]_vars

(***************************************************************************)
(* Properties.                                                             *)
(***************************************************************************)
\* Request r arrives in this step.
Arrives(r) == req[r].pc = "idle" /\ req'[r].pc # "idle"

\* Request r arrives in this step and its handler calls getRedditToken.
CallsToken(r) == Arrives(r) /\ variant = "oauth" /\ req'[r].jsonUrl.type = "string"

\* getRedditToken of request r returns in this step.
TokenReturns(r) ==
  /\ req[r].pc \in {"idle", "exchange", "exchangeJson"}
  /\ req'[r].pc = "token"

\* The cached token passes the freshness check now.
CacheValid == cachedToken # NullToken /\ now < tokenExpiry - BufferMs

\* C1: a call to getRedditToken made while a token is cached and the time
\* is before its expiry minus 60 seconds returns that cached token and
\* performs no credential exchange (nor touches the cache).
C1_CacheHit ==
  [][\A r \in Reqs :
       (CallsToken(r) /\ CacheValid) =>
         /\ req'[r].pc = "token"
         /\ req'[r].token = cachedToken
         /\ req'[r].exchanges = 0
         /\ UNCHANGED tokenVars]_vars

\* C1 witness: one request acquired a token by its exchange and a later one
\* was handed the same token from the cache without an exchange.
C1_Witness ==
  /\ req[1].exchanges = 1 /\ req[1].token # NullToken
  /\ req[2].exchanges = 0 /\ req[2].token = req[1].token
  /\ req[2].pc = "token"

\* C2 as stated: every call made with no cached token, or at or past the
\* expiry minus 60 seconds, performs exactly one credential exchange.
C2_Original ==
  [][\A r \in Reqs :
       (CallsToken(r) /\ ~CacheValid) => req'[r].exchanges = 1]_vars

\* C2 amended: with the client id and secret configured, a call made with no
\* cached token, or at or past the expiry minus 60 seconds, performs exactly
\* one credential exchange; when the exchange succeeds the token is stored
\* with expiry = now + lifetime * 1000 and is the call's result.
C2_Refresh ==
  [][\A r \in Reqs :
       /\ (CallsToken(r) /\ configured /\ ~CacheValid) =>
            (req'[r].pc = "exchange" /\ req'[r].exchanges = 1)
       /\ req'[r].exchanges # req[r].exchanges => Arrives(r)
       /\ (TokenReturns(r) /\ req[r].pc = "exchangeJson" /\ req'[r].token # NullToken) =>
            /\ req'[r].exchanges = 1
            /\ cachedToken' = req'[r].token
            /\ \E l \in Lifetimes : tokenExpiry' = now + l * MsPerSec]_vars

\* C2 witness: a request refreshed a token that had passed its expiry minus
\* the buffer, and the new token is cached with its expiry.
C2_Witness ==
  /\ now = TickMs
  /\ req[1].exchanges = 1 /\ req[1].token = "tokA"
  /\ req[2].exchanges = 1 /\ req[2].token = "tokB" /\ req[2].pc = "token"
  /\ cachedToken = "tokB" /\ tokenExpiry = now + 180 * MsPerSec

C4_ConcurrentRefresh ==
  [][\A r \in Reqs :
       /\ req'[r].exchanges <= 1
       /\ (TokenReturns(r) /\ req'[r].token # NullToken) =>
            \/ /\ req[r].pc = "exchangeJson"
               /\ req[r].exchanges = 1
               /\ cachedToken' = req'[r].token
            \/ /\ req[r].pc = "idle"
               /\ CacheValid
               /\ req'[r].token = cachedToken
               /\ req'[r].exchanges = 0]_vars

\* C4 witness: two exchanges overlapped; the second request's token was
\* overwritten in the cache by the first request's, and each holds its own.
C4_Witness ==
  /\ now = 0
  /\ req[1].exchanges = 1 /\ req[2].exchanges = 1
  /\ req[1].token = "tokA" /\ req[2].token = "tokB"
  /\ cachedToken = "tokA" /\ tokenExpiry = 180 * MsPerSec

\* getRedditToken gave request r no token.
NoToken(r) ==
  /\ variant = "oauth"
  /\ req[r].jsonUrl.type = "string"
  /\ req[r].token = NullToken

\* C5: in the credentialed server a request whose getRedditToken yields no
\* token ends with the 500 authentication error and never issues a GET.
C5_AuthFailFast ==
  \A r \in Reqs :
    /\ (NoToken(r) /\ req[r].pc = "token") =>
         (req[r].fetches = <<>> /\ req[r].responses = <<>>)
    /\ (NoToken(r) /\ req[r].pc = "done") =>
         /\ req[r].fetches = <<>>
         /\ req[r].responses =
              <<[status |-> 500,
                 body |-> ErrorBody("Could not authenticate with Reddit", 0)]>>

\* C5 witness: a request whose exchange failed was answered 500.
C5_Witness ==
  \E r \in Reqs :
    /\ NoToken(r) /\ req[r].pc = "done" /\ req[r].exchanges = 1
    /\ req[r].responses[1].status = 500

\* C6 as stated: every scrape request makes exactly one fetch of the thread
\* endpoint.
C6_Original ==
  \A r \in Reqs : req[r].pc = "done" => Len(req[r].fetches) = 1

\* Request r passed validation and, in the credentialed server, has a token.
ReachesFetch(r) ==
  /\ ~Falsy(req[r].url)
  /\ req[r].jsonUrl.type = "string"
  /\ variant = "oauth" => req[r].token # NullToken

\* C6 amended: in every variant a request makes at most one fetch of the
\* thread endpoint, exactly one when it passes validation (and, in the
\* credentialed server, obtains a token) and none otherwise; a failed fetch
\* is never retried.
C6_OneFetch ==
  \A r \in Reqs :
    /\ Len(req[r].fetches) <= 1
    /\ req[r].pc \in {"fetch", "text", "json"} => Len(req[r].fetches) = 1
    /\ req[r].pc = "done" => (Len(req[r].fetches) = 1 <=> ReachesFetch(r))

\* C6 witness: a request whose GET failed was answered after that one GET.
C6_Witness ==
  \E r \in Reqs :
    /\ req[r].pc = "done" /\ Len(req[r].fetches) = 1 /\ req[r].status = 0
    /\ req[r].responses[1].body = ErrorBody("FetchError", 0)

\* C7: for every non-success upstream status s the response has status s
\* and only an error message.
C7_StatusPropagated ==
  \A r \in Reqs :
    (req[r].pc = "done" /\ Len(req[r].fetches) = 1 /\ req[r].status # 0
       /\ ~Ok(req[r].status)) =>
      req[r].responses =
        <<[status |-> req[r].status,
           body |-> ErrorBody("Reddit returned status", req[r].status)]>>

\* A response is the thread result or an error object, and the thread
\* result goes with status 200 only.
WellFormed(resp) ==
  \/ DOMAIN resp.body = {"error", "shown"} /\ resp.status # 200
  \/ DOMAIN resp.body = {"title", "body", "comments"} /\ resp.status = 200

\* The next step of request r's handler after an await.
Resume(r) ==
  \/ ExchangeResponse(r)
  \/ ExchangeJson(r)
  \/ TokenResume(r)
  \/ FetchResponse(r)
  \/ ErrorText(r)
  \/ ThreadJson(r)

\* C8: a handler sends at most one response, has sent exactly one when it
\* has ended, the response being the result or an error object, and until
\* then it waits for a promise whose settling resumes it.
C8_OneResponse ==
  \A r \in Reqs :
    /\ Len(req[r].responses) <= 1
    /\ req[r].pc = "done" <=> Len(req[r].responses) = 1
    /\ req[r].pc = "done" => WellFormed(req[r].responses[1])
    /\ req[r].pc \notin {"idle", "done"} => ENABLED Resume(r)

\* C8 witness: the extraction raised on the document and the request was
\* answered by the one 500 error.
C8_Witness ==
  \E r \in Reqs :
    /\ req[r].pc = "done" /\ req[r].status = 200
    /\ req[r].responses = <<[status |-> 500, body |-> ErrorBody("TypeError", 0)]>>

\* No /comments/<id> in the link.
NoThreadId(u) == u.type = "string" /\ \A i \in 1..Len(u.atoms) : ~LooseAt(u.atoms, i)

\* C9: a request with a missing or empty URL, or in the credentialed server
\* a URL without a thread identifier, is answered 400 on arrival with no
\* credential exchange, no fetch and the token cache unchanged.
C9_RejectedNoEffect ==
  [][\A r \in Reqs :
       (Arrives(r) /\ (Falsy(req'[r].url) \/ (variant = "oauth" /\ NoThreadId(req'[r].url)))) =>
         /\ req'[r].pc = "done"
         /\ Len(req'[r].responses) = 1
         /\ req'[r].responses[1].status = 400
         /\ "error" \in DOMAIN req'[r].responses[1].body
         /\ req'[r].exchanges = 0
         /\ req'[r].fetches = <<>>
         /\ UNCHANGED tokenVars]_vars

\* C9 witness: with a token cached, a link without a thread identifier was
\* rejected.
C9_Witness ==
  \E r \in Reqs :
    /\ cachedToken # NullToken
    /\ req[r].pc = "done" /\ req[r].url = JsStr(UrlNoThread)
    /\ req[r].responses[1].body = ErrorBody("Invalid Reddit URL format", 0)

\* Path p comes before path q in pre-order: p is a proper prefix of q, or
\* p is smaller where they first differ.
PathBefore(p, q) ==
  \/ Len(p) < Len(q) /\ SubSeq(q, 1, Len(p)) = p
  \/ \E k \in 1..Len(p) :
       /\ k <= Len(q)
       /\ SubSeq(p, 1, k - 1) = SubSeq(q, 1, k - 1)
       /\ p[k] < q[k]

\* A with replies B and the bodyless C, whose reply is D.
ExampleForest ==
  <<MkNode("t1", TRUE, <<1>>,
           <<MkNode("t1", TRUE, <<1, 1>>, <<>>),
             MkNode("t1", FALSE, <<1, 2>>,
                    <<MkNode("t1", TRUE, <<1, 2, 1>>, <<>>)>>)>>)>>

\* C10: extractComments returns the records in pre-order: a comment before
\* its replies, its whole subtree before its next sibling; for the example
\* forest the bodies are those of A, B, D.
C10_PreOrder ==
  fpc = "done" =>
    /\ ~comments.threw
    /\ \A i, j \in 1..Len(comments.comments) :
         i < j => PathBefore(comments.comments[i].body, comments.comments[j].body)
    /\ children = ExampleForest =>
         [i \in 1..Len(comments.comments) |-> comments.comments[i].body]
           = <<<<1>>, <<1, 1>>, <<1, 2, 1>>>>

\* C10 witness: the example forest was flattened to three records.
C10_Witness ==
  fpc = "done" /\ children = ExampleForest /\ Len(comments.comments) = 3

RECURSIVE Emitted(_)
\* The paths of the nodes of a forest that are comments (kind t1) with a
\* body and hang under comments only.
Emitted(nodes) ==
  UNION {IF nodes[i].kind = "t1"
           THEN (IF Has(nodes[i].data, "body") THEN {nodes[i].data.body} ELSE {})
                  \cup (IF Has(nodes[i].data.replies, "data")
                          THEN Emitted(nodes[i].data.replies.data.children)
                          ELSE {})
           ELSE {}
         : i \in 1..Len(nodes)}

\* A bodyless comment with one reply, then a node of another kind that has
\* a body and a comment beneath it.
MixedForest ==
  <<MkNode("t1", FALSE, <<1>>, <<MkNode("t1", TRUE, <<1, 1>>, <<>>)>>),
    MkNode("more", TRUE, <<2>>, <<MkNode("t1", TRUE, <<2, 1>>, <<>>)>>)>>

\* C11: the output of extractComments has exactly one record for each node
\* of kind t1 with a non-empty body that is reachable through comment nodes,
\* and no other record: a bodyless comment gives no record but its replies
\* are traversed, a node of another kind gives no record and hides what is
\* beneath it.
C11_Membership ==
  fpc = "done" =>
    /\ ~comments.threw
    /\ {comments.comments[i].body : i \in 1..Len(comments.comments)} = Emitted(children)
    /\ Len(comments.comments) = Cardinality(Emitted(children))
    /\ children = MixedForest =>
         [i \in 1..Len(comments.comments) |-> comments.comments[i].body] = <<<<1, 1>>>>

\* C11 witness: the forest with a bodyless comment and a node of another
\* kind was flattened to the one record of the bodyless comment's reply.
C11_Witness ==
  fpc = "done" /\ children = MixedForest /\ Len(comments.comments) = 1

\* The one node of the input: a comment with data and a non-empty body.
HasRecord ==
  /\ Len(children) = 1
  /\ Has(children[1], "kind") /\ children[1].kind = "t1"
  /\ Has(children[1], "data")
  /\ Has(children[1].data, "body") /\ children[1].data.body = <<"hi">>

\* C12: the record of a comment carries the node's author, or "[deleted]"
\* when it has none, its score, or 0, and its created_utc, or null; values
\* that are present are copied unchanged, and so is the body.
C12_Defaults ==
  fpc = "done" /\ HasRecord /\ ~comments.threw =>
    LET d == children[1].data
        c == comments.comments[1]
    IN /\ Len(comments.comments) >= 1
       /\ c.body = <<"hi">>
       /\ c.author = (IF "author" \in DOMAIN d THEN <<"alice">> ELSE <<"[deleted]">>)
       /\ c.score = (IF "score" \in DOMAIN d THEN 7 ELSE 0)
       /\ c.created_utc = (IF "created_utc" \in DOMAIN d THEN <<100>> ELSE <<>>)
       /\ DOMAIN c = {"author", "body", "score", "created_utc"}

\* C12 witness: a comment with a body and nothing else was flattened to a
\* record made of the three defaults.
C12_Witness ==
  /\ fpc = "done" /\ HasRecord /\ ~comments.threw
  /\ DOMAIN children[1].data = {"body"}
  /\ comments.comments = <<[author |-> <<"[deleted]">>, body |-> <<"hi">>,
                            score |-> 0, created_utc |-> <<>>]>>

\* C13: extractComments returns a sequence of records, and never raises,
\* for every listing whose nodes lack any subset of kind, data, author,
\* body, score, created_utc and replies.
C13_NeverRaises ==
  fpc = "done" => ~comments.threw

\* The parsed document has a second element that is a listing with a
\* children array.
HasCommentListing(json) ==
  /\ json.type = "array"
  /\ Len(json.items) >= 2
  /\ "data" \in DOMAIN json.items[2]
  /\ "children" \in DOMAIN json.items[2].data

\* Request r was answered after the upstream body had been parsed.
Parsed(r) == req[r].pc = "done" /\ req[r].json.type # "undefined"

\* C14: a document of a successful upstream answer that has no top-level
\* comment listing array is answered with HTTP 500 and an error, never
\* with a thread result.
C14_HardFailure ==
  \A r \in Reqs :
    Parsed(r) /\ ~HasCommentListing(req[r].json) =>
      /\ Len(req[r].responses) = 1
      /\ req[r].responses[1].status = 500
      /\ DOMAIN req[r].responses[1].body = {"error", "shown"}

\* The record of the one comment of DocThread and DocBare.
CommentAB == [author |-> <<"a">>, body |-> <<"b">>, score |-> 5, created_utc |-> <<100>>]

\* C15: a well-formed two-listing document is answered with status 200 and
\* {title, body, comments}: the post's title and selftext, each the empty
\* string when missing, and the flattened children of the second listing.
C15_ThreadResult ==
  \A r \in Reqs :
    Parsed(r) /\ req[r].json \in {DocThread, DocBare} =>
      /\ Ok(req[r].status)
      /\ req[r].token = (IF variant = "oauth" THEN req[r].fetches[1].auth ELSE NullToken)
      /\ req[r].responses =
           <<[status |-> 200,
              body |-> [title |-> IF req[r].json = DocThread THEN <<"T">> ELSE <<>>,
                        body |-> IF req[r].json = DocThread THEN <<"S">> ELSE <<>>,
                        comments |-> <<CommentAB>>]]>>
      /\ req[r].responses[1].body.comments
           = extractComments(req[r].json.items[2].data.children).comments

\* C15 witness: the credentialed server got a token and answered the
\* thread whose post has a title and a selftext with the thread result.
C15_Witness ==
  \E r \in Reqs :
    /\ Parsed(r) /\ variant = "oauth" /\ req[r].token \in Tokens
    /\ req[r].json = DocThread
    /\ req[r].responses[1].status = 200
    /\ req[r].responses[1].body.title = <<"T">>
    /\ req[r].responses[1].body.comments = <<CommentAB>>

\* The positions of a link where /r/<subreddit>/comments/<id> stands, the
\* subreddit and the id being one word each.
StrictOccs(s) ==
  {p \in 1..(Len(s) - 7) :
     /\ s[p] = "/" /\ Lower(s[p + 1]) = "r" /\ s[p + 2] = "/"
     /\ s[p + 3] \in AlnumAtoms
     /\ s[p + 4] = "/" /\ Lower(s[p + 5]) = "comments" /\ s[p + 6] = "/"
     /\ s[p + 7] \in AlnumAtoms}

\* C16: for a link that contains /r/<subreddit>/comments/<id>, the
\* credentialed server's toRedditJsonUrl returns
\* https://oauth.reddit.com/r/<subreddit>/comments/<id> with exactly that
\* subreddit and that id, also when the looser pattern matches as well.
C16_StrictTemplate ==
  upc = "done" /\ Cardinality(StrictOccs(input)) = 1 =>
    LET p == CHOOSE q \in StrictOccs(input) : TRUE
    IN jsonUrls["oauth"]
         = [type |-> "string",
            atoms |-> <<"https:", "/", "/", "oauth.reddit.com", "/", "r", "/",
                        input[p + 3], "/", "comments", "/", input[p + 7]>>]

\* The positions of a link where /comments/ stands.
CommentsAt(s) ==
  {p \in 1..(Len(s) - 2) : s[p] = "/" /\ Lower(s[p + 1]) = "comments" /\ s[p + 2] = "/"}

\* The link has a /comments/<id>, and its first one has a one-word id.
HasThreadId(s) ==
  /\ CommentsAt(s) # {}
  /\ Min(CommentsAt(s)) + 3 <= Len(s)
  /\ s[Min(CommentsAt(s)) + 3] \in AlnumAtoms

ThreadId(s) == s[Min(CommentsAt(s)) + 3]

\* C17: the endpoint of a link that matches the loose pattern only is a
\* function of its <id> alone: https://oauth.reddit.com/comments/<id> in
\* the credentialed server, https://www.reddit.com/comments/<id>.json in
\* the first keyless one, whatever the scheme, host, query string and other
\* path segments of the link.
C17_LooseById ==
  upc = "done" /\ HasThreadId(input) =>
    /\ (\A i \in 1..Len(input) : ~StrictAt(input, i)) =>
         jsonUrls["oauth"]
           = [type |-> "string",
              atoms |-> <<"https:", "/", "/", "oauth.reddit.com", "/", "comments", "/",
                          ThreadId(input)>>]
    /\ jsonUrls["www"]
         = [type |-> "string",
            atoms |-> <<"https:", "/", "/", "www.reddit.com", "/", "comments", "/",
                        ThreadId(input), ".json">>]

\* No /comments/ of the link is followed by a word.
NoAlnumId(s) == \A p \in CommentsAt(s) : p + 3 > Len(s) \/ s[p + 3] \notin AlnumAtoms

\* What is left of a link without its query string and trailing slashes.
Stem(s) ==
  LET path == CHOOSE t \in {SubSeq(s, 1, n) : n \in 0..Len(s)} :
                /\ \A k \in 1..Len(t) : t[k] # "?"
                /\ Len(t) = Len(s) \/ s[Len(t) + 1] = "?"
  IN CHOOSE t \in {SubSeq(path, 1, n) : n \in 0..Len(path)} :
       /\ t = <<>> \/ t[Len(t)] # "/"
       /\ \A k \in (Len(t) + 1)..Len(path) : path[k] = "/"

\* s without its .json suffix, if it has one.
Bare(s) == IF s # <<>> /\ s[Len(s)] = ".json" THEN SubSeq(s, 1, Len(s) - 1) ELSE s

\* The hosts an alternate front end is replaced with.
Canon(s) == [k \in 1..Len(s) |-> IF s[k] \in AltHosts THEN "www.reddit.com" ELSE s[k]]

\* C18: for a link with no thread pattern the fallback of the keyless
\* servers returns the link without its query string and trailing slashes,
\* ending in .json exactly once: the suffix is appended when the link lacks
\* it and not duplicated when the link has it.
C18_Fallback ==
  upc = "done" =>
    \A v \in {"www", "rewrite", "basic"} :
      (v = "www" => NoAlnumId(input)) =>
        LET out == jsonUrls[v].atoms
        IN /\ jsonUrls[v].type = "string"
           /\ out # <<>> /\ out[Len(out)] = ".json"
           /\ \A k \in 1..Len(out) : out[k] # "?"
           /\ Canon(Bare(out)) = Canon(Bare(Stem(input)))
           /\ v # "rewrite" => Bare(out) = Bare(Stem(input))

\* C18 witness: a link that ends in .json, a slash and a query string was
\* resolved to the link up to its .json, and one without the suffix got it.
C18_Witness ==
  /\ upc = "done"
  /\ \/ /\ input = <<"http:", "/", "/", "old.reddit.com", "/", "r", "/", "js", ".json",
                        "/", "?", "x">>
          /\ jsonUrls["basic"].atoms
               = <<"http:", "/", "/", "old.reddit.com", "/", "r", "/", "js", ".json">>
          /\ jsonUrls["rewrite"].atoms
               = <<"http:", "/", "/", "www.reddit.com", "/", "r", "/", "js", ".json">>
     \/ /\ input = <<"https:", "/", "/", "www.reddit.com", "/", "r", "/", "js", "/",
                        "?", "x">>
          /\ jsonUrls["www"].atoms
               = <<"https:", "/", "/", "www.reddit.com", "/", "r", "/", "js", ".json">>

\* C19: the cached token and its expiry are written only by the step of
\* getRedditToken that receives a token from the exchange; every other
\* step, and every step that answers a request (a 401 or 403 from
\* upstream, a failed fetch, a rejected link), leaves both as they were.
C19_TokenLifecycle ==
  [][/\ tokenVars' # tokenVars =>
          \E r \in Reqs :
            /\ req[r].pc = "exchangeJson" /\ req'[r].pc = "token"
            /\ req'[r].token \in Tokens
            /\ cachedToken' = req'[r].token
            /\ \E l \in Lifetimes : tokenExpiry' = now + l * 1000
     /\ (\E r \in Reqs : Len(req'[r].responses) > Len(req[r].responses)) =>
          UNCHANGED tokenVars
     /\ (\E r \in Reqs : req[r].pc \in {"idle", "fetch", "text", "json"}
                           /\ req'[r] # req[r]) =>
          UNCHANGED tokenVars]_vars

\* C19 witness: a request that used the cached token was answered 403 and
\* the token is still cached, with its expiry, for the request after it.
C19_Witness ==
  \E r, p \in Reqs :
    /\ req[r].pc = "done" /\ req[r].status = 403
    /\ req[r].token \in Tokens /\ cachedToken = req[r].token
    /\ tokenExpiry > now
    /\ p # r /\ req[p].pc = "fetch" /\ req[p].exchanges = 0
    /\ req[p].token = cachedToken

\* The count a stats file holds (none when it is missing or unparseable).
Count(file) == IF file.kind = "json" THEN file.visitorCount ELSE 0

\* C20: a GET of "/" increases the persisted visitorCount by exactly one,
\* and a request of any other method or path (/api/scrape, /api/health and
\* /admin/stats among them) leaves stats.json as it was.
C20_CountsRootGets ==
  visit.method # "" =>
    IF visit.method = "GET" /\ visit.path = "/"
      THEN statsFile.kind = "json" /\ Count(statsFile) = Count(visit.before) + 1
      ELSE statsFile = visit.before

\* C21: the cached token and the cached expiry are always those of one
\* exchange: a step that changes either stores the token one request's
\* exchange returned together with the expiry computed from that answer,
\* so under every interleaving of refreshes a token is never cached with
\* another exchange's expiry, nor a non-null token with the initial 0.
C21_PairConsistent ==
  /\ [](cachedToken = NullToken <=> tokenExpiry = 0)
  /\ [][(cachedToken' # cachedToken \/ tokenExpiry' # tokenExpiry) =>
          \E r \in Reqs :
            /\ req[r].pc = "exchangeJson" /\ req[r].exchanges = 1
            /\ req'[r].token # NullToken
            /\ cachedToken' = req'[r].token
            /\ \E l \in Lifetimes : tokenExpiry' = now + l * 1000
            /\ \A p \in Reqs \ {r} : req'[p] = req[p]]_vars

\* C21 witness: two requests each made an exchange and got different
\* tokens; after the clock advanced the cache holds the second one's token
\* with the expiry of a lifetime of 60 seconds counted from now.
C21_Witness ==
  \E r, p \in Reqs :
    /\ r # p
    /\ req[r].exchanges = 1 /\ req[r].token = "tokA"
    /\ req[p].exchanges = 1 /\ req[p].token = "tokB"
    /\ now = TickMs
    /\ cachedToken = "tokB" /\ tokenExpiry = now + 60 * 1000

\* C22: whatever the requests, and whether or not the reads and writes of
\* stats.json fail, the persisted visitorCount never decreases.
C22_NeverDecreases ==
  [][(statsFile.kind = "json" /\ statsFile'.kind = "json") =>
       statsFile'.visitorCount >= statsFile.visitorCount]_vars

====
